---- MODULE Spec2Model ----
(***************************************************************************)
(* The customers page (src/src/pages/index.tsx): one useSWR subscription   *)
(* on the key '/api/customers' and two mutation handlers, handleCreate and *)
(* handleDelete, that write to the remote store and then call              *)
(* mutate('/api/customers').                                               *)
(*                                                                         *)
(* The page is single-threaded JavaScript: every action below is one run   *)
(* to completion, from an event (a click, a response, a timer) to the next *)
(* await.  The cache is the swr library in its default configuration, as   *)
(* the page uses it (useSWR(key, fetcher) without options, mutate(key)     *)
(* without data): revalidations on mount, focus and error retry are        *)
(* deduplicated on FETCH[key]; mutate(key) deletes FETCH[key] and starts a *)
(* request of its own; a response is written to the cache only while its   *)
(* request is the one FETCH[key] names.  The remote store (the route       *)
(* behind /api/customers) is not part of the page: it is modelled from its *)
(* interface, and may fail any call.                                       *)
(***************************************************************************)
EXTENDS Integers, Sequences, FiniteSets, TLC

\* Bounds of the model.
MaxLen == 2
MaxEvents == 3

VARIABLES
  form,         \* the dialog's four text fields (useState, lines 56-59)
  calls,        \* the running invocations of handleCreate / handleDelete
  nCalls,       \* how many times the handlers were invoked
  budget,       \* how many more events the model follows: handler invocations,
                \* focus events and failed list calls
  hist,         \* the remote store: hist[v + 1] is its content after v commits
  cache,        \* the swr cache entry of the key: data, error, isValidating
  FETCH,        \* swr's FETCH[key]: the timestamp of the current request, 0: none
  ts,           \* swr's __timestamp; also the number of list calls made
  inflight,     \* the list calls (fetcher runs) that have not settled
  retryTimers,  \* pending onErrorRetry timers
  firstObs      \* what the readers that called before the first fetch settled got

vars == <<form, calls, nCalls, budget, hist, cache, FETCH, ts, inflight,
          retryTimers, firstObs>>

swr == <<cache, FETCH, ts, inflight, retryTimers, firstObs>>

----------------------------------------------------------------------------
\* Text: a string is a sequence of characters.

Chars == {" ", "a"}

RECURSIVE StringsOfLen(_)
StringsOfLen(n) ==
  IF n = 0 THEN {<<>>}
  ELSE {Append(s, c) : s \in StringsOfLen(n - 1), c \in Chars}

Strings == UNION {StringsOfLen(n) : n \in 0..MaxLen}

IsWhitespace(c) == c = " "

RECURSIVE TrimStart(_)
TrimStart(s) ==
  IF s # <<>> /\ IsWhitespace(Head(s)) THEN TrimStart(Tail(s)) ELSE s

RECURSIVE TrimEnd(_)
TrimEnd(s) ==
  IF s # <<>> /\ IsWhitespace(s[Len(s)])
  THEN TrimEnd(SubSeq(s, 1, Len(s) - 1))
  ELSE s

\* String.prototype.trim
Trim(s) == TrimEnd(TrimStart(s))

----------------------------------------------------------------------------
\* Customers and the form.

Customer(fn, ln, bn, em) ==
  [firstName |-> fn, lastName |-> ln, businessName |-> bn, email |-> em]

EmptyForm == Customer(<<>>, <<>>, <<>>, <<>>)

\* What the user types in the concurrency model: a complete form.
MainForms == {Customer(<<"a">>, <<"a">>, <<>>, <<"a", "a">>)}

\* What the user may have typed in the validation model: anything.
AllForms ==
  {Customer(fn, ln, bn, em) : fn \in Strings, ln \in Strings, bn \in Strings, em \in Strings}

InitialStore == <<Customer(<<"a">>, <<"a">>, <<>>, <<"a">>)>>

EmailsOf(list) == {list[i].email : i \in 1..Len(list)}

\* The validation of handleCreate.
ValidNoTrim(f) == f.firstName # <<>> /\ f.lastName # <<>> /\ f.email # <<>>

Valid(f) ==
  ~(Trim(f.firstName) = <<>> \/ Trim(f.lastName) = <<>> \/ Trim(f.email) = <<>>)

----------------------------------------------------------------------------
\* Values.

\* The store's content and the number of writes it has committed.
store == hist[Len(hist)]

commits == Len(hist) - 1

\* data: undefined
NoData == [req |-> 0, ver |-> 0, list |-> <<>>]

\* One invocation of a handler, from its fetch() on.  pc: "sent" (the write is
\* on its way or at the store), "replied" (its response is on its way back),
\* "awaitMutate" (at `await mutate(...)`).
NewCall(id, op, arg) ==
  [id |-> id, op |-> op, arg |-> arg, pc |-> "sent", resp |-> "none",
   inv |-> 0, req |-> 0, ver |-> 0]

\* One run of the fetcher.  phase: "sent", then "ok" or "err" (the response is
\* on its way back); ver, list: what the store answered, and after how many
\* commits; early: the readers awaiting it that called before the first fetch
\* settled; superseded: mutate(key) was called since it started.
Request(id, ev, early) ==
  [id |-> id, phase |-> "sent", ver |-> 0, list |-> <<>>, event |-> ev,
   early |-> early, superseded |-> FALSE]

InflightIds == {r.id : r \in inflight}

CallIds == {c.id : c \in calls}

\* The first fetch has not settled, and nothing was invalidated since.
BeforeFirstResolution == \E r \in inflight : r.id = 1 /\ ~r.superseded

----------------------------------------------------------------------------
\* The swr cache of the key.

\* revalidate() as the owner of a new request: FETCH[key] = [fetcher(key),
\* getTimestamp()], the cache entry marked validating.
StartRequest(ev) ==
  /\ ts' = ts + 1
  /\ FETCH' = ts + 1
  /\ inflight' = inflight \cup
       {Request(ts + 1, ev, IF BeforeFirstResolution THEN 1 ELSE 0)}
  /\ cache' = [cache EXCEPT !.isValidating = TRUE]

\* A faulty softRevalidate that ignores FETCH[key].
SoftRevalidateNoDedupe(ev) == StartRequest(ev)

\* revalidate({dedupe: true}), on mount, focus, reconnect and error retry: with
\* FETCH[key] set, the caller awaits that request (or has its value already).
SoftRevalidate(ev) ==
  IF FETCH # 0
  THEN /\ inflight' =
            {IF r.id = FETCH
             THEN [r EXCEPT !.early = @ + (IF BeforeFirstResolution THEN 1 ELSE 0)]
             ELSE r : r \in inflight}
       /\ UNCHANGED <<cache, FETCH, ts>>
  ELSE StartRequest(ev)

\* A faulty mutate(key) that lets a request in flight absorb it.
MutateDeduped ==
  /\ SoftRevalidate("mutate")
  /\ UNCHANGED <<retryTimers, firstObs>>

\* mutate('/api/customers'): delete FETCH[key], then revalidate() without
\* dedupe.  Every request in flight is superseded from here on.
Mutate ==
  /\ ts' = ts + 1
  /\ FETCH' = ts + 1
  /\ inflight' = {[r EXCEPT !.superseded = TRUE] : r \in inflight} \cup
       {Request(ts + 1, "mutate", 0)}
  /\ cache' = [cache EXCEPT !.isValidating = TRUE]
  /\ UNCHANGED <<retryTimers, firstObs>>

\* A faulty race check that keeps every response.
IsCurrentAlways(r) == TRUE

\* The race check of revalidate: a response is kept only while its request is
\* the one FETCH[key] names.
IsCurrent(r) == FETCH = r.id

\* shouldRetryOnError (true by default) and isActive(): the page is visible
\* and online.
ShouldRetry(active) == active

\* What a reader awaiting request r gets.
Outcome(r) ==
  [ok |-> r.phase = "ok", ver |-> r.ver, list |-> r.list,
   err |-> IF r.phase = "ok" THEN 0 ELSE r.id, readers |-> r.early]

\* The calls whose `await mutate(...)` ends when request id settles.
Awaiting(id) == {c \in calls : c.pc = "awaitMutate" /\ c.req = id}

\* The list call r settles: the fetcher's promise resolves (data) or rejects.
\* A handler awaiting it returns; handleCreate goes through handleClose().
SettleList(r, active) ==
  /\ r \in inflight
  /\ r.phase \in {"ok", "err"}
  /\ inflight' = inflight \ {r}
  /\ IF r.phase = "ok"
     THEN /\ cache' = IF IsCurrent(r)
                      THEN [data |-> [req |-> r.id, ver |-> r.ver, list |-> r.list],
                            error |-> 0, errVer |-> 0, isValidating |-> FALSE]
                      ELSE cache
          /\ UNCHANGED <<FETCH, retryTimers>>
     ELSE /\ FETCH' = IF FETCH = r.id THEN 0 ELSE FETCH
          /\ cache' = [cache EXCEPT !.error = r.id, !.errVer = r.ver,
                                    !.isValidating = FALSE]
          /\ retryTimers' = IF ShouldRetry(active) THEN retryTimers + 1
                            ELSE retryTimers
  /\ firstObs' = IF r.early > 0 THEN firstObs \cup {Outcome(r)} ELSE firstObs
  /\ calls' = calls \ Awaiting(r.id)
  /\ form' = IF \E c \in Awaiting(r.id) : c.op = "create" THEN EmptyForm ELSE form
  /\ UNCHANGED <<nCalls, budget, hist, ts>>

\* setTimeout(cleanupState, dedupingInterval): FETCH[key] is deleted if it still
\* names the settled request.
DedupeTimer ==
  /\ FETCH # 0
  /\ FETCH \notin InflightIds
  /\ FETCH' = 0
  /\ UNCHANGED <<form, calls, nCalls, budget, hist, cache, ts, inflight,
                 retryTimers, firstObs>>

\* The onErrorRetry timer fires: revalidate({retryCount, dedupe: true}).
RetryTimer ==
  /\ retryTimers > 0
  /\ retryTimers' = retryTimers - 1
  /\ SoftRevalidate("retry")
  /\ UNCHANGED <<form, calls, nCalls, budget, hist, firstObs>>

\* The window is focused or the network is back: softRevalidate().
onFocus ==
  /\ budget > 0
  /\ budget' = budget - 1
  /\ SoftRevalidate("focus")
  /\ UNCHANGED <<form, calls, nCalls, hist, retryTimers, firstObs>>

----------------------------------------------------------------------------
\* The remote store's list operation, through the fetcher.

ListOk(r) ==
  /\ r \in inflight
  /\ r.phase = "sent"
  /\ inflight' = (inflight \ {r}) \cup
       {[r EXCEPT !.phase = "ok", !.ver = commits, !.list = store]}
  /\ UNCHANGED <<form, calls, nCalls, budget, hist, cache, FETCH, ts,
                 retryTimers, firstObs>>

\* A non-ok response, an unparsable body or a transport failure: the fetcher
\* throws.
ListFails(r) ==
  /\ r \in inflight
  /\ r.phase = "sent"
  /\ budget > 0
  /\ budget' = budget - 1
  /\ inflight' = (inflight \ {r}) \cup {[r EXCEPT !.phase = "err", !.ver = commits]}
  /\ UNCHANGED <<form, calls, nCalls, hist, cache, FETCH, ts,
                 retryTimers, firstObs>>

----------------------------------------------------------------------------
\* The dialog.

\* Cancel, or a click outside the dialog.
handleClose ==
  /\ form # EmptyForm
  /\ form' = EmptyForm
  /\ UNCHANGED <<calls, nCalls, budget, hist, cache, FETCH, ts, inflight,
                 retryTimers, firstObs>>

\* The onChange handlers of the four fields.
TypeForm(f) ==
  /\ form # f
  /\ form' = f
  /\ UNCHANGED <<calls, nCalls, budget, hist, cache, FETCH, ts, inflight,
                 retryTimers, firstObs>>

----------------------------------------------------------------------------
\* The mutation handlers.

\* A faulty catch block that refreshes the list.
CatchInvalidates == Mutate

\* The catch block: console.error and alert.
Catch == UNCHANGED <<cache, FETCH, ts, inflight, retryTimers, firstObs>>

\* A faulty check that takes every response for a success.
ResponseOkAlways(c) == TRUE

\* response.ok
ResponseOk(c) == c.resp = "ok"

\* Submit: the validation (alert and return), then fetch(POST) up to its await.
handleCreate ==
  /\ budget > 0
  /\ nCalls' = nCalls + 1
  /\ budget' = budget - 1
  /\ calls' = IF Valid(form)
              THEN calls \cup {NewCall(nCalls + 1, "create", form)}
              ELSE calls
  /\ UNCHANGED <<form, hist, cache, FETCH, ts, inflight, retryTimers, firstObs>>

\* The delete button of a rendered row: window.confirm, then fetch(DELETE) up
\* to its await.  The key travels through encodeURIComponent and the route's
\* decoding, which give the email back.
handleDelete(custEmail, confirmed) ==
  /\ custEmail \in EmailsOf(cache.data.list)
  /\ budget > 0
  /\ IF confirmed
     THEN /\ nCalls' = nCalls + 1
          /\ budget' = budget - 1
          /\ calls' = calls \cup {NewCall(nCalls + 1, "delete", custEmail)}
     ELSE UNCHANGED <<nCalls, budget, calls>>
  /\ UNCHANGED <<form, hist, cache, FETCH, ts, inflight, retryTimers, firstObs>>

\* After `await fetch(...)`: a non-ok response throws into the catch block, an
\* ok one goes on to `await mutate('/api/customers')`.
AfterWrite(c) ==
  IF ResponseOk(c)
  THEN /\ Mutate
       /\ calls' = (calls \ {c}) \cup
            {[c EXCEPT !.pc = "awaitMutate", !.inv = @ + 1, !.req = FETCH']}
  ELSE /\ Catch
       /\ calls' = calls \ {c}

\* The response of the POST arrives.
CreateResponse(c) ==
  /\ c \in calls
  /\ c.op = "create"
  /\ c.pc = "replied"
  /\ AfterWrite(c)
  /\ UNCHANGED <<form, nCalls, budget, hist>>

\* The response of the DELETE arrives.
DeleteResponse(c) ==
  /\ c \in calls
  /\ c.op = "delete"
  /\ c.pc = "replied"
  /\ AfterWrite(c)
  /\ UNCHANGED <<form, nCalls, budget, hist>>

\* fetch() itself rejects (no connection, or the response is lost): the catch
\* block runs.
WriteRejected(c) ==
  /\ c \in calls
  /\ c.pc \in {"sent", "replied"}
  /\ Catch
  /\ calls' = calls \ {c}
  /\ UNCHANGED <<form, nCalls, budget, hist>>

----------------------------------------------------------------------------
\* The remote store's create and delete operations.

Committed(c) ==
  IF c.op = "create"
  THEN Append(store, c.arg)
  ELSE SelectSeq(store, LAMBDA x : x.email # c.arg)

Acceptable(c) ==
  IF c.op = "create"
  THEN c.arg.email \notin EmailsOf(store)
  ELSE c.arg \in EmailsOf(store)

WriteOk(c) ==
  /\ c \in calls
  /\ c.pc = "sent"
  /\ Acceptable(c)
  /\ hist' = Append(hist, Committed(c))
  /\ calls' = (calls \ {c}) \cup
       {[c EXCEPT !.pc = "replied", !.resp = "ok", !.ver = commits + 1]}
  /\ UNCHANGED <<form, nCalls, budget, cache, FETCH, ts, inflight, retryTimers, firstObs>>

\* A non-ok response.  The handler reads its body, response.json(), which
\* gives the message or throws: either way an Error reaches the catch block.
WriteRefused(c) ==
  /\ c \in calls
  /\ c.pc = "sent"
  /\ calls' = (calls \ {c}) \cup {[c EXCEPT !.pc = "replied", !.resp = "notok"]}
  /\ UNCHANGED <<form, nCalls, budget, hist, cache, FETCH, ts, inflight,
                 retryTimers, firstObs>>

----------------------------------------------------------------------------
\* The page after its first render and effects: the store as the scenario of
\* the specification has it, the form empty, useSWR's mount revalidation in
\* flight.

Mounted ==
  /\ calls = {}
  /\ nCalls = 0
  /\ hist = <<InitialStore>>
  /\ cache = [data |-> NoData, error |-> 0, errVer |-> 0, isValidating |-> TRUE]
  /\ FETCH = 1
  /\ ts = 1
  /\ inflight = {Request(1, "mount", 1)}
  /\ retryTimers = 0
  /\ firstObs = {}

Init ==
  /\ form = EmptyForm
  /\ budget = MaxEvents
  /\ Mounted

\* What the user does.
UserNext ==
  \/ handleClose
  \/ \E f \in MainForms : TypeForm(f)
  \/ handleCreate
  \/ \E e \in EmailsOf(cache.data.list), ok \in BOOLEAN : handleDelete(e, ok)
  \/ onFocus

\* What the page, its timers and the remote do.
SystemNext ==
  \/ \E c \in calls : CreateResponse(c)
  \/ \E c \in calls : DeleteResponse(c)
  \/ \E c \in calls : WriteRejected(c)
  \/ \E c \in calls : WriteOk(c)
  \/ \E c \in calls : WriteRefused(c)
  \/ \E r \in inflight : ListOk(r)
  \/ \E r \in inflight : ListFails(r)
  \/ \E r \in inflight, active \in BOOLEAN : SettleList(r, active)
  \/ DedupeTimer
  \/ RetryTimer

Next == UserNext \/ SystemNext

Spec == Init /\ [][Next]_vars

\* The same page when every response and every timer eventually comes; the
\* user is free to do nothing.  The runs are followed for one event less.
LiveInit ==
  /\ form = EmptyForm
  /\ budget = MaxEvents - 1
  /\ Mounted

LiveSpec == LiveInit /\ [][Next]_vars /\ WF_vars(SystemNext)

\* The validation alone: the user has typed anything into the form and submits.
FormInit ==
  /\ form \in AllForms
  /\ budget = MaxEvents
  /\ Mounted

FormNext == handleCreate

FormSpec == FormInit /\ [][FormNext]_vars

----------------------------------------------------------------------------
\* What the claims speak of.

\* The requests started in this step.
Started == {q \in inflight' : q.id > ts}

\* Request r settles in this step.
Settles(r) == r \in inflight /\ r.id \notin {q.id : q \in inflight'}

\* Call c sees the ok response of its write in this step.
SeesSuccess(c) ==
  /\ c \in calls
  /\ c.pc = "replied"
  /\ c.resp = "ok"
  /\ \E d \in calls' : d.id = c.id /\ d.pc = "awaitMutate"

\* Call c ends in failure in this step: it leaves before `await mutate`.
Fails(c) ==
  /\ c \in calls
  /\ c.pc \in {"sent", "replied"}
  /\ c.id \notin {d.id : d \in calls'}

\* A handler was invoked in this step and returned at its validation.
FailsValidation == nCalls' = nCalls + 1 /\ calls' = calls

\* Empty or whitespace-only.
Blank(s) == \A i \in DOMAIN s : s[i] = " "

\* The cache holds a collection the store gave after its commit v.
Fetched(v) == cache.data.req # 0 /\ cache.data.ver >= v

\* The cache holds the error of a list call that failed after commit v.
FailedSince(v) == cache.error # 0 /\ cache.errVer >= v

\* C1: a step starts an invalidation's list call only as the step in which a
\* handler call sees the ok response of its own write, and that call awaits it:
\* never before the write is sent, while it is pending, or on a failure.
C1_InvalidateAfterSuccess ==
  [][\A q \in Started :
       q.event = "mutate" =>
         \E c \in calls :
           /\ SeesSuccess(c)
           /\ c.inv = 0
           /\ \E d \in calls' : d.id = c.id /\ d.inv = 1 /\ d.req = q.id]_vars

C1_Witness ==
  \E c \in calls, q \in inflight :
    c.pc = "awaitMutate" /\ c.inv = 1 /\ c.req = q.id /\ q.event = "mutate"

\* C2: the step in which a call fails (at the validation, on a non-ok response
\* or on a rejected fetch) leaves the cache entry and its requests as they
\* were, and the failing call has issued no invalidation.
C2_FailureLeavesCache ==
  [][(FailsValidation \/ \E c \in calls : Fails(c)) =>
       /\ UNCHANGED <<cache, FETCH, ts, inflight>>
       /\ \A c \in calls : Fails(c) => c.inv = 0]_vars

\* A call was made and has ended, nothing was invalidated, and the cache
\* still holds what the first fetch gave.
C2_Witness ==
  /\ nCalls = 1
  /\ calls = {}
  /\ ts = 1
  /\ inflight = {}
  /\ cache.data.req = 1
  /\ cache.data.list = InitialStore

\* C3: a submit with a blank firstName, lastName or email sends no POST; any
\* other submit, whatever its businessName, sends the form as typed.
C3_ValidationFailsFast ==
  [][nCalls' = nCalls + 1 =>
       IF Blank(form.firstName) \/ Blank(form.lastName) \/ Blank(form.email)
       THEN calls' = calls
       ELSE \E c \in calls' \ calls :
              c.op = "create" /\ c.arg = form /\ c.pc = "sent"]_vars

\* A submit with a whitespace-only email has been rejected.
C3_Witness ==
  /\ nCalls = 1
  /\ calls = {}
  /\ ~Blank(form.firstName)
  /\ ~Blank(form.lastName)
  /\ form.businessName = <<>>
  /\ form.email = <<" ">>

\* The cache's collection is one the store held.
DataFromStore ==
  \/ cache.data.req = 0
  \/ /\ cache.data.ver + 1 \in DOMAIN hist
     /\ cache.data.list = hist[cache.data.ver + 1]

\* A handler has seen the success of its write, the store's commit v, and is
\* at `await mutate(...)`.
Succeeded(v) == \E c \in calls : c.pc = "awaitMutate" /\ c.ver = v

\* C4 as claimed: once a handler has seen its write succeed, the cache
\* eventually holds a collection fetched after that write's commit; and what
\* the cache holds is always a collection the store gave.
C4_EventuallyFetched ==
  /\ []DataFromStore
  /\ \A v \in 1..MaxEvents : Succeeded(v) ~> Fetched(v)

\* C4, amended: ... eventually holds a collection fetched after that write's
\* commit, or the error of a list call that failed after it.
C4_FetchedOrFailed ==
  /\ []DataFromStore
  /\ \A v \in 1..MaxEvents : Succeeded(v) ~> (Fetched(v) \/ FailedSince(v))

\* The create has returned and the cache holds the list its invalidation
\* fetched, with the new customer in it.
C4_Witness ==
  /\ nCalls = 1
  /\ calls = {}
  /\ ts = 2
  /\ cache.data.req = 2
  /\ cache.data.ver = 1
  /\ Len(cache.data.list) = 2

\* C5: while the first fetch is pending and nothing was invalidated, one list
\* call has been made; the readers that called in that time all got one value.
C5_SingleFlight ==
  /\ BeforeFirstResolution => ts = 1
  /\ Cardinality({[o EXCEPT !.readers = 0] : o \in firstObs}) <= 1

C5_Witness == ts = 1 /\ \E o \in firstObs : o.readers >= 2 /\ o.ok

\* C6 as claimed: when a list call that was in flight at an invalidation
\* settles, an additional list call is still to be performed: a newer one is
\* in flight.
C6_AdditionalAfterSettle ==
  [][\A r \in inflight :
       (Settles(r) /\ r.superseded) => \E q \in inflight' : q.id > r.id]_vars

\* C6, amended: an invalidation issued while a list call is in flight starts
\* a list call of its own at once, newer than every one in flight, and those
\* stay in flight beside it.
C6_InvalidateNotAbsorbed ==
  [][(inflight # {} /\ \E c \in calls : SeesSuccess(c)) =>
       /\ ts' = ts + 1
       /\ FETCH' = ts'
       /\ \E q \in Started : q.id = ts' /\ q.phase = "sent"
       /\ InflightIds \subseteq {q.id : q \in inflight'}]_vars

C6_Witness ==
  \E r, q \in inflight : r.superseded /\ r.id < q.id /\ q.event = "mutate"

C8_OneInFlight == Cardinality(inflight) <= 1

\* C8, amended: at most one list call in flight has not been superseded by an
\* invalidation.
C8_OneCurrentInFlight == Cardinality({r \in inflight : ~r.superseded}) <= 1

C8_Witness ==
  /\ Cardinality(inflight) = 2
  /\ Cardinality({r \in inflight : ~r.superseded}) = 1

\* C9: a list call starts only on a read (focus, reconnect) or an invalidation.
C9_NoAutomaticRetry ==
  [][\A q \in Started : q.event \in {"focus", "mutate"}]_vars

\* C10: a call invoked later has not sent its write while a call invoked
\* earlier is still running (before its write or its invalidation is over).
C10_MutationsQueue == ~ \E c, d \in calls : c.id < d.id

====
